---- MODULE Spec2Model ----
(***************************************************************************)
(* Recipe generation pipeline of ChefApp: fetchWithRetry (the transport)   *)
(* and generateRecipe (the controller that owns recipe/isLoading/error).   *)
(* Two copies of the component exist in the repository:                    *)
(*   "chefApp"  = src/my-recipe-app/src/chefApp.jsx                        *)
(*   "part_000" = src/unnamed/part_000                                     *)
(* The variable `variant` says which copy is running.                      *)
(***************************************************************************)
EXTENDS Integers, Sequences, FiniteSets, TLC

VARIABLES variant, pipes, recipe, isLoading, error, escaped, outcome, answers,
          peer

vars ==
    <<variant, pipes, recipe, isLoading, error, escaped, outcome, answers,
      peer>>

Variants == {"chefApp", "part_000"}

(***************************************************************************)
(* Bounds of the model.                                                    *)
(***************************************************************************)
\* largest maxRetries argument tried when fetchWithRetry is called directly
MaxRetriesBound == 4
\* largest number of generateRecipe invocations pending at the same time
MaxInFlight == 2

(***************************************************************************)
(* JavaScript values.  Every value is a record tagged by t.                *)
(***************************************************************************)
Undefined == [t |-> "undefined"]
JNull == [t |-> "null"]
JStr(s) == [t |-> "str", s |-> s]
JNum(n) == [t |-> "num", n |-> n]
JArr(a) == [t |-> "arr", a |-> a]
JObj(o) == [t |-> "obj", o |-> o]

\* an Error object; only its message is ever read
Err(msg) == [t |-> "error", message |-> msg]

Nullish(v) == v.t \in {"undefined", "null"}

\* JavaScript truthiness, as used by !x, x && y, x || y
Truthy(v) ==
    CASE v.t = "str" -> v.s # ""
      [] v.t = "num" -> v.n # 0
      [] v.t \in {"undefined", "null"} -> FALSE
      [] OTHER -> TRUE

\* v.k for a v that is not null/undefined
Get(v, k) == IF v.t = "obj" /\ k \in DOMAIN v.o THEN v.o[k] ELSE Undefined

\* v?.k
OptGet(v, k) == IF Nullish(v) THEN Undefined ELSE Get(v, k)

\* v?.[n], n zero-based
OptIndex(v, n) ==
    IF v.t = "arr" /\ n + 1 <= Len(v.a) THEN v.a[n + 1] ELSE Undefined

IsArray(v) == v.t = "arr"

(***************************************************************************)
(* JSON.parse, on the texts the model feeds it.  A text outside the table  *)
(* is not JSON and makes JSON.parse throw.                                  *)
(***************************************************************************)
TxtQuota == "{\"error\":{\"message\":\"quota exceeded\"}}"
TxtCode == "{\"code\":503}"
TxtNull == "null"
TxtPlain == "Service Unavailable"
TxtSample == "{\"recipeName\":\"Stir Fry\",\"description\":\"d\",\"ingredients\":[\"1 cup rice\"],\"instructions\":[\"cook\"],\"prepTimeMinutes\":20}"
TxtDescOnly == "{\"description\":\"x\"}"
TxtNoSteps == "{\"recipeName\":\"Soup\",\"ingredients\":[\"water\"]}"
TxtIngrString == "{\"recipeName\":\"Soup\",\"ingredients\":\"water\"}"
TxtNotJson == "Here is your recipe"
TxtPrepString == "{\"recipeName\":\"Tea\",\"ingredients\":[\"water\",\"tea leaves\"],\"instructions\":[\"boil\",\"steep\"],\"prepTimeMinutes\":\"5\"}"

ParseTable ==
    (TxtQuota :> JObj([error |-> JObj([message |-> JStr("quota exceeded")])]))
 @@ (TxtCode :> JObj([code |-> JNum(503)]))
 @@ (TxtNull :> JNull)
 @@ (TxtSample :> JObj([recipeName |-> JStr("Stir Fry"),
                        description |-> JStr("d"),
                        ingredients |-> JArr(<<JStr("1 cup rice")>>),
                        instructions |-> JArr(<<JStr("cook")>>),
                        prepTimeMinutes |-> JNum(20)]))
 @@ (TxtDescOnly :> JObj([description |-> JStr("x")]))
 @@ (TxtNoSteps :> JObj([recipeName |-> JStr("Soup"),
                         ingredients |-> JArr(<<JStr("water")>>)]))
 @@ (TxtIngrString :> JObj([recipeName |-> JStr("Soup"),
                            ingredients |-> JStr("water")]))
 @@ (TxtPrepString :> JObj([recipeName |-> JStr("Tea"),
                            ingredients |-> JArr(<<JStr("water"),
                                                   JStr("tea leaves")>>),
                            instructions |-> JArr(<<JStr("boil"),
                                                    JStr("steep")>>),
                            prepTimeMinutes |-> JStr("5")]))

\* JSON.parse taking a text that is not JSON for the name of a recipe
JSONParse_Lenient(text) ==
    IF text \in DOMAIN ParseTable
    THEN [ok |-> TRUE, v |-> ParseTable[text]]
    ELSE [ok |-> TRUE, v |-> JObj([recipeName |-> JStr(text),
                                   ingredients |-> JArr(<< >>)])]

JSONParse(text) ==
    IF text \in DOMAIN ParseTable
    THEN [ok |-> TRUE, v |-> ParseTable[text]]
    ELSE [ok |-> FALSE, v |-> Undefined]

\* what JSON.parse throws
SyntaxErr == Err("Unexpected token in JSON")
\* what reading a property of null/undefined throws
TypeErr(what) == Err("Cannot read properties of " \o what)

(***************************************************************************)
(* The environment: what the network may answer.                           *)
(***************************************************************************)
\* non-2xx statuses the provider answers with
ErrorStatuses == {400, 503}
\* Math.random() * 1000, in whole milliseconds: a value of [0, 1000)
JitterSet == {0, 999}
\* a jitter of up to two seconds
Jitter_Doubled(v) == IF v = "chefApp" THEN {0, 1999} ELSE {0}

\* the jitter drawn in the catch block: part_000 draws none
Jitter(v) == IF v = "chefApp" THEN JitterSet ELSE {0}
\* bodies of non-2xx responses, as response.text() yields them
ErrorBodies == {"", TxtPlain, TxtQuota, TxtCode, TxtNull}
\* what fetch rejects with on a network failure
NetworkErr == Err("Failed to fetch")
\* what response.text() / response.json() reject with when the body cannot be read
BodyErr == Err("Failed to read the response body")

(***************************************************************************)
(* generateRecipe: the prompt built from the answers.                      *)
(***************************************************************************)
\* the initial value of the answers state
InitialAnswers ==
    [ingredients |-> "", diet |-> "veg", fatType |-> "oil", allergies |-> "",
     specialRequest |-> ""]

\* what the form can put into each answer: the two radio groups have two
\* values each, the text inputs take any text
FieldValues ==
    [ingredients |-> {"", "chicken, rice"},
     diet |-> {"veg", "non-veg"},
     fatType |-> {"oil", "butter"},
     allergies |-> {"", "nuts"},
     specialRequest |-> {"", "spicy", "Strictly Vegetarian sides"}]

NoIngredients == "I have no specific ingredients, be creative."
NoAllergies == "None, ensure safety."
NoSpecialRequest == "Make it simple and delicious."

\* value || fallback with the fallback forgotten
OrDefault_Raw(value, fallback) == value

\* value || fallback, on strings
OrDefault(value, fallback) == IF value # "" THEN value ELSE fallback

\* the dietary phrase with the two phrases swapped
DietPhrase_Swapped(diet) ==
    IF diet = "veg" THEN "Non-Vegetarian" ELSE "Strictly Vegetarian"

\* answers.diet === 'veg' ? 'Strictly Vegetarian' : 'Non-Vegetarian'
DietPhrase(diet) ==
    IF diet = "veg" THEN "Strictly Vegetarian" ELSE "Non-Vegetarian"

\* userQuery
UserQuery(a) ==
    "Generate a single, unique food recipe based on the following strict criteria:\n"
    \o "- Main Ingredients: " \o OrDefault(a.ingredients, NoIngredients) \o "\n"
    \o "- Dietary Type: " \o DietPhrase(a.diet) \o "\n"
    \o "- Cooking Fat: Use " \o a.fatType \o " exclusively.\n"
    \o "- Allergies to Avoid: " \o OrDefault(a.allergies, NoAllergies) \o "\n"
    \o "- Special Request/Style: "
    \o OrDefault(a.specialRequest, NoSpecialRequest) \o "\n"
    \o "The entire response MUST be a single JSON object conforming to the provided schema. DO NOT include any text outside the JSON structure."

\* responseSchema: the module constant recipeSchema, which no code assigns
\* to or changes, stands in the payload by its name
ResponseSchema == "recipeSchema"

\* the text of systemInstruction
SystemInstruction ==
    "You are an expert, world-class chef AI. Your sole purpose is to create novel, detailed, and delicious recipes that strictly adhere to all user criteria and restrictions. Output only the requested JSON object."

\* the temperature of generationConfig, as written in the source
Temperature == "0.7"

\* a payload whose temperature is raised when an error is on display
Payload_Stateful(userQuery) ==
    [contents |-> <<[parts |-> <<[text |-> userQuery]>>]>>,
     generationConfig |->
        [responseMimeType |-> "application/json",
         responseSchema |-> ResponseSchema,
         temperature |-> IF error # JNull THEN "0.9" ELSE Temperature],
     systemInstruction |-> [parts |-> <<[text |-> SystemInstruction]>>]]

\* payload, which JSON.stringify turns into the body of the request once,
\* before fetchWithRetry is called
Payload(userQuery) ==
    [contents |-> <<[parts |-> <<[text |-> userQuery]>>]>>,
     generationConfig |->
        [responseMimeType |-> "application/json",
         responseSchema |-> ResponseSchema,
         temperature |-> Temperature],
     systemInstruction |-> [parts |-> <<[text |-> SystemInstruction]>>]]

(***************************************************************************)
(* fetchWithRetry.  One invocation is a record:                            *)
(*   caller      who awaits it: "generateRecipe", or "direct" for a call   *)
(*               of fetchWithRetry on its own                              *)
(*   maxRetries  the third argument                                        *)
(*   i           the loop variable                                         *)
(*   pc          the await the invocation is suspended at: "fetch",        *)
(*               "text" (response.text(), part_000 only), "wait" (the      *)
(*               setTimeout promise), "json" (response.json() in           *)
(*               generateRecipe), or "returned" / "thrown" once it is over *)
(*   status      response.status of the latest response, 0 when none       *)
(*   caught      the catch parameter `error` of the latest catch           *)
(*   lastError   the variable lastError                                    *)
(*   delay       the delay of the latest wait performed (milliseconds, 0   *)
(*               when none)                                                *)
(*   calls       number of fetch calls made so far                         *)
(*   waits       number of setTimeout waits started so far                 *)
(*   waited      for a direct call, the sum of the delays of the waits     *)
(*               started so far (milliseconds); a record kept for the      *)
(*               properties, which no step reads                           *)
(*   result      the value returned or thrown                              *)
(*   log         for a direct call, the status each attempt so far ended   *)
(*               with (0 when fetch rejected); a record kept for the       *)
(*               properties, which no step reads                           *)
(*   constraints the answers generateRecipe was called with; a record kept *)
(*               for the properties, which no step reads                   *)
(*   body        options.body, the payload each fetch is given to send     *)
(*               (Undefined for a direct call, whose options are not       *)
(*               looked into)                                              *)
(*   latest      whether no call of generateRecipe has been made since the *)
(*               one this invocation belongs to; a record kept for the     *)
(*               properties, which no step reads                           *)
(*   errorText   for a direct call, the body text response.text() yielded  *)
(*               for the latest response (part_000 line 44), Undefined     *)
(*               when it was not read                                      *)
(***************************************************************************)
DefaultMaxRetries(v) == IF v = "chefApp" THEN 5 ELSE 3

Response(status) == [t |-> "response", status |-> status]

NewCall(caller, maxRetries) ==
    [caller |-> caller, maxRetries |-> maxRetries, i |-> 0, pc |-> "start",
     status |-> 0, caught |-> Undefined, lastError |-> Undefined,
     delay |-> 0, calls |-> 0, waits |-> 0, waited |-> 0,
     result |-> Undefined, log |-> << >>, errorText |-> Undefined,
     constraints |-> Undefined, body |-> Undefined, latest |-> TRUE]

\* attempt of invocation c ended with response status `status`, 0 when fetch
\* rejected
Attempted(c, status) ==
    [c EXCEPT !.status = status,
              !.log = IF c.caller = "direct" THEN Append(@, status) ELSE @,
              !.errorText = Undefined]

\* response.text() of invocation c has yielded errorText
BodyRead(c, errorText) ==
    [c EXCEPT !.errorText = IF c.caller = "direct" THEN JStr(errorText) ELSE @]

\* the value thrown after the loop (chefApp.jsx line 58, part_000 line 67)
ExhaustedError(v, maxRetries, lastError) ==
    IF v = "chefApp"
    THEN IF lastError.t = "error"
         THEN Err("API call failed after " \o ToString(maxRetries)
                  \o " attempts: " \o lastError.message)
         ELSE TypeErr("undefined (reading 'message')")
    ELSE lastError

\* LoopCond with the bound off by one downwards
LoopCond_StopsEarly(i, maxRetries) == i < maxRetries - 1

\* LoopCond with the bound off by one upwards
LoopCond_OneMore(i, maxRetries) == i <= maxRetries

\* the loop condition
LoopCond(i, maxRetries) == i < maxRetries

\* fetch given a body rebuilt from the answers as they are at the attempt
FetchArgs_Rebuilt(c) ==
    IF c.caller = "generateRecipe" THEN Payload(UserQuery(answers)) ELSE c.body

\* what fetch(url, options) is given to send: the options the invocation
\* was called with
FetchArgs(c) == c.body

\* the loop head: either the next fetch is issued or the loop is left
LoopHead(v, c) ==
    IF LoopCond(c.i, c.maxRetries)
    THEN [c EXCEPT !.pc = "fetch", !.calls = @ + 1, !.body = FetchArgs(c)]
    ELSE [c EXCEPT !.pc = "thrown",
                   !.result = ExhaustedError(v, c.maxRetries, c.lastError)]

Pow2(n) == 2 ^ n

\* Delay growing linearly instead of exponentially
Delay_Linear(v, i, jitter) ==
    IF v = "chefApp" THEN (i + 1) * 1000 + jitter ELSE (i + 1) * 1000

\* the delay computed in the catch block (chefApp.jsx line 52, part_000
\* line 62)
Delay(v, i, jitter) ==
    IF v = "chefApp" THEN Pow2(i) * 1000 + jitter ELSE Pow2(i) * 1000

\* whether the catch block waits (chefApp.jsx line 53, part_000 line 61)
ShouldWait(i, maxRetries) == i < maxRetries - 1

\* lastError assigned on the first failure only
NextLastError_KeepFirst(lastError, err) ==
    IF lastError.t = "undefined" THEN err ELSE lastError

\* lastError never assigned
NextLastError_Dropped(lastError, err) == lastError

\* the assignment to lastError in the catch block (chefApp.jsx line 51,
\* part_000 line 60)
NextLastError(lastError, err) == err

\* the catch block of the loop (chefApp.jsx lines 50-56, part_000 lines
\* 58-65), up to its await or, without one, up to the next loop head
Catch(v, c, err, jitter) ==
    LET d == [c EXCEPT !.caught = err,
                       !.lastError = NextLastError(c.lastError, err)]
    IN IF ShouldWait(c.i, c.maxRetries)
       THEN [d EXCEPT !.pc = "wait", !.waits = @ + 1,
                      !.delay = Delay(v, c.i, jitter),
                      !.waited = IF c.caller = "direct"
                                 THEN @ + Delay(v, c.i, jitter) ELSE @]
       ELSE LoopHead(v, [d EXCEPT !.i = @ + 1])

\* chefApp: the error thrown for a response that is not ok
StatusError(status) ==
    IF status = 400
    THEN Err("Bad Request: Invalid input to the API.")
    ELSE Err("HTTP error! status: " \o ToString(status))

\* errorMessage without the attempt to parse the body
ErrorMessage_TextOnly(status, errorText) ==
    IF errorText # ""
    THEN "API Error: " \o errorText \o " (" \o ToString(status) \o ")"
    ELSE "HTTP error! status: " \o ToString(status)

\* part_000: errorMessage, from the status and the body text
ErrorMessage(status, errorText) ==
    LET generic == "HTTP error! status: " \o ToString(status)
        fromText == IF errorText # ""
                    THEN "API Error: " \o errorText
                         \o " (" \o ToString(status) \o ")"
                    ELSE generic
        parsed == JSONParse(errorText)
    IN IF ~parsed.ok \/ Nullish(parsed.v)
       THEN fromText
       ELSE IF Truthy(Get(parsed.v, "error"))
               /\ Truthy(Get(Get(parsed.v, "error"), "message"))
            THEN "API Error: " \o Get(Get(parsed.v, "error"), "message").s
                 \o " (" \o ToString(status) \o ")"
            ELSE generic

(***************************************************************************)
(* generateRecipe: what it does with the parsed response body.             *)
(***************************************************************************)
\* successful response bodies, as response.json() yields them
EnvText(text) ==
    JObj([candidates |-> JArr(<<JObj([content |->
          JObj([parts |-> JArr(<<JObj([text |-> JStr(text)])>>)])])>>)])
EnvNoText ==
    JObj([candidates |-> JArr(<<JObj([content |->
          JObj([parts |-> JArr(<<JObj([role |-> JStr("model")])>>)])])>>)])
EnvEmptyParts ==
    JObj([candidates |-> JArr(<<JObj([content |->
          JObj([parts |-> JArr(<< >>)])])>>)])
EnvNoParts ==
    JObj([candidates |-> JArr(<<JObj([content |->
          JObj([role |-> JStr("model")])])>>)])
EnvNoContent ==
    JObj([candidates |-> JArr(<<JObj([finishReason |-> JStr("SAFETY")])>>)])
EnvNoCandidates == JObj([candidates |-> JArr(<< >>)])
EnvError == JObj([error |-> JObj([message |-> JStr("quota exceeded")])])

ResponseTexts ==
    {"", TxtSample, TxtDescOnly, TxtNoSteps, TxtIngrString, TxtNotJson, TxtNull,
     TxtPrepString}

Envelopes ==
    {EnvText(text) : text \in ResponseTexts}
        \cup {EnvNoText, EnvEmptyParts, EnvNoParts, EnvNoContent,
              EnvNoCandidates, EnvError, JNull}

\* result.candidates?.[0]?.content?.parts?.[0]?.text
TextPath(result) ==
    OptGet(OptIndex(OptGet(OptGet(OptIndex(Get(result, "candidates"), 0),
                                  "content"), "parts"), 0), "text")

MalformedMessage == "Received an empty or malformed response from the AI."
MissingFieldsMessage == "Generated JSON is missing core recipe fields."

\* the guard of line 115 looking at result.candidates only
PathPresent_CandidatesOnly(result) == Truthy(Get(result, "candidates"))

\* the guard of line 115 comparing the text with undefined
PathPresent_NotUndefined(result) == TextPath(result).t # "undefined"

\* the guard of line 115: the text path is there and not empty
PathPresent(result) == Truthy(TextPath(result))

\* jsonString as JSON.parse reads it: a value that is no string is converted
\* to one
JsonString(result) ==
    IF TextPath(result).t = "str" THEN TextPath(result).s ELSE "undefined"

\* the check of the parsed recipe reading the field `name`
MissingCore_WrongField(parsedRecipe) ==
    ~Truthy(Get(parsedRecipe, "name"))
        \/ ~IsArray(Get(parsedRecipe, "ingredients"))

\* the check of the parsed recipe
MissingCore(parsedRecipe) ==
    ~Truthy(Get(parsedRecipe, "recipeName"))
        \/ ~IsArray(Get(parsedRecipe, "ingredients"))

\* the try block after `await response.json()`: either the recipe handed to
\* setRecipe or the error thrown, with the step that threw it; parsed is
\* parsedRecipe, Undefined when JSON.parse was not reached or threw
Validate(result) ==
    IF Nullish(result)
    THEN [ok |-> FALSE, stage |-> "path", recipe |-> JNull,
          parsed |-> Undefined,
          err |-> TypeErr("null (reading 'candidates')")]
    ELSE IF ~PathPresent(result)
    THEN [ok |-> FALSE, stage |-> "path", recipe |-> JNull,
          parsed |-> Undefined,
          err |-> Err(IF Truthy(OptGet(Get(result, "error"), "message"))
                      THEN OptGet(Get(result, "error"), "message").s
                      ELSE MalformedMessage)]
    ELSE LET parsed == JSONParse(JsonString(result))
         IN IF ~parsed.ok
            THEN [ok |-> FALSE, stage |-> "parse", recipe |-> JNull,
                  parsed |-> Undefined, err |-> SyntaxErr]
            ELSE IF Nullish(parsed.v)
            THEN [ok |-> FALSE, stage |-> "schema", recipe |-> JNull,
                  parsed |-> parsed.v,
                  err |-> TypeErr("null (reading 'recipeName')")]
            ELSE IF MissingCore(parsed.v)
            THEN [ok |-> FALSE, stage |-> "schema", recipe |-> JNull,
                  parsed |-> parsed.v, err |-> Err(MissingFieldsMessage)]
            ELSE [ok |-> TRUE, stage |-> "none", recipe |-> parsed.v,
                  parsed |-> parsed.v, err |-> Undefined]

\* the argument of setError in the catch block
FailureMessage(err) ==
    "Failed to generate recipe: " \o err.message
        \o ". Please refine your input and try again."

\* whether the catch block of generateRecipe handles the thrown value: reading
\* err.message of undefined throws out of the catch block
CatchHandles(err) == err.t = "error"

\* outcome: how the pipeline that completed last, since the last call of
\* generateRecipe, ended: kind "success" or "failure", the stage that threw,
\* and the body response.json() had yielded (Undefined when it was not
\* reached); a record kept for the properties, which no step reads
NoOutcome == [kind |-> "none", stage |-> "none", input |-> Undefined]

\* setRecipe called before the check of the parsed recipe
RecipeAfter_BeforeCheck(v, old) ==
    IF v.ok THEN v.recipe ELSE IF v.parsed.t = "obj" THEN v.parsed ELSE old

\* the recipe slot after the try block: setRecipe is reached only when
\* nothing has thrown
RecipeAfter(v, old) == IF v.ok THEN v.recipe ELSE old

\* catch of generateRecipe without the finally block
Failed_NoFinally(err, stage, input) ==
    /\ IF CatchHandles(err)
       THEN error' = JStr(FailureMessage(err)) /\ escaped' = escaped
       ELSE error' = error /\ escaped' = TRUE
    /\ isLoading' = isLoading
    /\ outcome' = [kind |-> "failure", stage |-> stage, input |-> input]

\* catch and finally of generateRecipe for a thrown value err
Failed(err, stage, input) ==
    /\ IF CatchHandles(err)
       THEN error' = JStr(FailureMessage(err)) /\ escaped' = escaped
       ELSE error' = error /\ escaped' = TRUE
    /\ isLoading' = FALSE
    /\ outcome' = [kind |-> "failure", stage |-> stage, input |-> input]

RemoveAt(s, p) == SubSeq(s, 1, p - 1) \o SubSeq(s, p + 1, Len(s))

\* generateRecipe awaiting response.json(): fetchWithRetry has returned and
\* its locals are gone
AwaitJson == [NewCall("generateRecipe", 0) EXCEPT !.pc = "json"]

\* invocation q at an await.  No local that the catch block assigns is read
\* again before it is assigned again: lastError is assigned in every catch
\* block and read only after the loop, the catch parameter and the status
\* are read only in the iteration that set them (the status until the body
\* has been read), the delay only by the timer.  For a call made by
\* generateRecipe they are left out of the state at an await; for a direct
\* call they are kept, for the properties.
Suspended(q) ==
    IF q.caller = "generateRecipe"
    THEN [q EXCEPT !.caught = Undefined,
                   !.lastError = Undefined,
                   !.status = IF q.pc = "text" THEN @ ELSE 0,
                   !.delay = IF q.pc = "wait" THEN @ ELSE 0]
    ELSE q

\* invocation p of the sequence ps has moved on to q: a fetchWithRetry that
\* is over resumes its caller
Resume(ps, p, q) ==
    IF q.caller = "generateRecipe" /\ q.pc = "thrown"
    THEN /\ pipes' = RemoveAt(ps, p)
         /\ Failed(q.result, "transport", Undefined)
         /\ UNCHANGED recipe
    ELSE /\ pipes' = [ps EXCEPT ![p] =
                IF q.caller = "generateRecipe" /\ q.pc = "returned"
                THEN [AwaitJson EXCEPT !.latest = q.latest]
                ELSE Suspended(q)]
         /\ UNCHANGED <<recipe, isLoading, error, escaped, outcome>>

(***************************************************************************)
(* Instances of App.  The variables are the state of one mounted instance, *)
(* the one whose handler or continuation runs next; peer is the state of a *)
(* second mounted instance, with its number as id, or NoPeer when only one *)
(* instance is mounted.                                                    *)
(***************************************************************************)
NoPeer == [id |-> 0]

\* the state of the instance the variables stand for
Mine ==
    [id |-> 3 - peer.id, pipes |-> pipes, recipe |-> recipe,
     isLoading |-> isLoading, error |-> error, escaped |-> escaped,
     outcome |-> outcome, answers |-> answers]

\* a second instance that reads isLoading from a variable of the module,
\* which the instances share
OtherInstance_SharedLoading(o) ==
    IF o.id = 0 THEN o ELSE [o EXCEPT !.isLoading = isLoading]

\* what a step of one instance makes of the state of the other instance:
\* every slot is a useState of the instance and everything else is local to
\* an invocation of generateRecipe or fetchWithRetry
OtherInstance(o) == o

(***************************************************************************)
(* The steps.                                                              *)
(***************************************************************************)
\* generateRecipe without its setRecipe(null) and setError(null)
generateRecipe_KeepsStale ==
    /\ Len(pipes) < MaxInFlight
    /\ LET c == LoopHead(variant,
                         [NewCall("generateRecipe", DefaultMaxRetries(variant))
                             EXCEPT !.constraints = answers,
                                    !.body = Payload(UserQuery(answers))])
       IN IF c.pc = "thrown"
          THEN /\ recipe' = JNull
               /\ Failed(c.result, "transport", Undefined)
               /\ UNCHANGED pipes
          ELSE /\ error' = error
               /\ isLoading' = TRUE
               /\ recipe' = recipe
               /\ outcome' = NoOutcome
               /\ pipes' = Append([q \in DOMAIN pipes |->
                                       [pipes[q] EXCEPT !.latest = FALSE]], c)
               /\ UNCHANGED escaped
    /\ UNCHANGED <<variant, answers>>
    /\ peer' = OtherInstance(peer)

\* generateRecipe is called: the three setters, the payload, and
\* fetchWithRetry up to its first await
generateRecipe ==
    /\ Len(pipes) < MaxInFlight
    /\ LET c == LoopHead(variant,
                         [NewCall("generateRecipe", DefaultMaxRetries(variant))
                             EXCEPT !.constraints = answers,
                                    !.body = Payload(UserQuery(answers))])
       IN IF c.pc = "thrown"
          THEN /\ recipe' = JNull
               /\ Failed(c.result, "transport", Undefined)
               /\ UNCHANGED pipes
          ELSE /\ error' = JNull
               /\ isLoading' = TRUE
               /\ recipe' = JNull
               /\ outcome' = NoOutcome
               /\ pipes' = Append([q \in DOMAIN pipes |->
                                       [pipes[q] EXCEPT !.latest = FALSE]], c)
               /\ UNCHANGED escaped
    /\ UNCHANGED <<variant, answers>>
    /\ peer' = OtherInstance(peer)

\* the form is submitted through the submit button, which is disabled while
\* isLoading
FormSubmit ==
    /\ ~isLoading
    /\ generateRecipe

\* handleChange that also takes the displayed recipe and error away
handleChange_ClearsResult ==
    /\ \E name \in DOMAIN FieldValues : \E value \in FieldValues[name] :
          answers' = [answers EXCEPT ![name] = value]
    /\ recipe' = JNull
    /\ error' = JNull
    /\ UNCHANGED <<variant, pipes, isLoading, escaped, outcome>>
    /\ peer' = OtherInstance(peer)

\* handleChange for the input called name, which now holds value
Change(name, value) ==
    /\ answers' = [answers EXCEPT ![name] = value]
    /\ UNCHANGED <<variant, pipes, recipe, isLoading, error, escaped, outcome>>
    /\ peer' = OtherInstance(peer)

\* handleChange: an input of the form changes the answer it is named after
handleChange ==
    \E name \in DOMAIN FieldValues : \E value \in FieldValues[name] :
        Change(name, value)

\* fetch resolves with a 2xx response, which the loop does not return
FetchOk_KeepsLooping(p) ==
    /\ pipes[p].pc = "fetch"
    /\ Resume(pipes, p,
              LoopHead(variant, [Attempted(pipes[p], 200) EXCEPT
                                    !.i = @ + 1, !.result = Response(200)]))
    /\ UNCHANGED <<variant, answers>>
    /\ peer' = OtherInstance(peer)

\* fetch resolves with a 2xx response
FetchOk(p) ==
    /\ pipes[p].pc = "fetch"
    /\ Resume(pipes, p, [Attempted(pipes[p], 200) EXCEPT
                              !.pc = "returned", !.result = Response(200)])
    /\ UNCHANGED <<variant, answers>>
    /\ peer' = OtherInstance(peer)

\* fetch resolves with a response that is not ok: chefApp throws at once
\* (lines 43-48), part_000 first awaits response.text() (line 44)
FetchNotOk(p) ==
    /\ pipes[p].pc = "fetch"
    /\ \E status \in ErrorStatuses, jitter \in Jitter(variant) :
          LET c == Attempted(pipes[p], status)
          IN IF variant = "chefApp"
             THEN Resume(pipes, p, Catch(variant, c, StatusError(status), jitter))
             ELSE Resume(pipes, p, [c EXCEPT !.pc = "text"])
    /\ UNCHANGED <<variant, answers>>
    /\ peer' = OtherInstance(peer)

\* fetch rejects
FetchReject(p) ==
    /\ pipes[p].pc = "fetch"
    /\ \E jitter \in Jitter(variant) :
          Resume(pipes, p, Catch(variant, Attempted(pipes[p], 0),
                                 NetworkErr, jitter))
    /\ UNCHANGED <<variant, answers>>
    /\ peer' = OtherInstance(peer)

\* part_000: response.text() resolves
TextResolve(p) ==
    /\ pipes[p].pc = "text"
    /\ \E errorText \in ErrorBodies, jitter \in Jitter(variant) :
          Resume(pipes, p,
                 Catch(variant, BodyRead(pipes[p], errorText),
                       Err(ErrorMessage(pipes[p].status, errorText)), jitter))
    /\ UNCHANGED <<variant, answers>>
    /\ peer' = OtherInstance(peer)

\* part_000: response.text() rejects
TextReject(p) ==
    /\ pipes[p].pc = "text"
    /\ \E jitter \in Jitter(variant) :
          Resume(pipes, p, Catch(variant, pipes[p], BodyErr, jitter))
    /\ UNCHANGED <<variant, answers>>
    /\ peer' = OtherInstance(peer)

\* the timer of the backoff wait fires
TimerFires(p) ==
    /\ pipes[p].pc = "wait"
    /\ Resume(pipes, p, LoopHead(variant, [pipes[p] EXCEPT !.i = @ + 1]))
    /\ UNCHANGED <<variant, answers>>
    /\ peer' = OtherInstance(peer)

\* response.json() resolves
JsonResolve(p) ==
    /\ pipes[p].pc = "json"
    /\ \E result \in Envelopes :
          LET v == Validate(result)
          IN /\ recipe' = RecipeAfter(v, recipe)
             /\ IF v.ok
                THEN /\ isLoading' = FALSE
                     /\ outcome' = [kind |-> "success", stage |-> "none",
                                    input |-> result]
                     /\ UNCHANGED <<error, escaped>>
                ELSE Failed(v.err, v.stage, result)
    /\ pipes' = RemoveAt(pipes, p)
    /\ UNCHANGED <<variant, answers>>
    /\ peer' = OtherInstance(peer)

\* response.json() rejects and the request is sent again
JsonReject_Retries(p) ==
    /\ pipes[p].pc = "json"
    /\ pipes' = [pipes EXCEPT ![p] =
            LoopHead(variant,
                     [NewCall("generateRecipe", DefaultMaxRetries(variant))
                         EXCEPT !.constraints = answers,
                                !.body = Payload(UserQuery(answers)),
                                !.latest = pipes[p].latest])]
    /\ UNCHANGED <<variant, answers, recipe, isLoading, error, escaped,
                   outcome>>
    /\ peer' = OtherInstance(peer)

\* response.json() rejects
JsonReject(p) ==
    /\ pipes[p].pc = "json"
    /\ Failed(BodyErr, "body", Undefined)
    /\ pipes' = RemoveAt(pipes, p)
    /\ UNCHANGED <<variant, answers, recipe>>
    /\ peer' = OtherInstance(peer)

(***************************************************************************)
(* Spec: the component, generateRecipe being callable at any time.         *)
(***************************************************************************)
Init ==
    /\ variant \in Variants
    /\ pipes = << >>
    /\ recipe = JNull
    /\ isLoading = FALSE
    /\ error = JNull
    /\ escaped = FALSE
    /\ outcome = NoOutcome
    /\ answers = InitialAnswers
    /\ peer = NoPeer

Next ==
    \/ generateRecipe
    \/ \E p \in 1..Len(pipes) : FetchOk(p)
    \/ \E p \in 1..Len(pipes) : FetchNotOk(p)
    \/ \E p \in 1..Len(pipes) : FetchReject(p)
    \/ \E p \in 1..Len(pipes) : TextResolve(p)
    \/ \E p \in 1..Len(pipes) : TextReject(p)
    \/ \E p \in 1..Len(pipes) : TimerFires(p)
    \/ \E p \in 1..Len(pipes) : JsonResolve(p)
    \/ \E p \in 1..Len(pipes) : JsonReject(p)

Spec == Init /\ [][Next]_vars

(***************************************************************************)
(* SpecUI: the component as the page drives it, generateRecipe being       *)
(* reached only through the form.                                          *)
(***************************************************************************)
NextUI ==
    \/ FormSubmit
    \/ \E p \in 1..Len(pipes) : FetchOk(p)
    \/ \E p \in 1..Len(pipes) : FetchNotOk(p)
    \/ \E p \in 1..Len(pipes) : FetchReject(p)
    \/ \E p \in 1..Len(pipes) : TextResolve(p)
    \/ \E p \in 1..Len(pipes) : TextReject(p)
    \/ \E p \in 1..Len(pipes) : TimerFires(p)
    \/ \E p \in 1..Len(pipes) : JsonResolve(p)
    \/ \E p \in 1..Len(pipes) : JsonReject(p)

SpecUI == Init /\ [][NextUI]_vars

(***************************************************************************)
(* SpecForm: the page with its form: the answers are edited at any time    *)
(* and generateRecipe is reached through the submit button.                *)
(***************************************************************************)
NextForm ==
    \/ handleChange
    \/ FormSubmit
    \/ \E p \in 1..Len(pipes) : FetchOk(p)
    \/ \E p \in 1..Len(pipes) : FetchNotOk(p)
    \/ \E p \in 1..Len(pipes) : FetchReject(p)
    \/ \E p \in 1..Len(pipes) : TextResolve(p)
    \/ \E p \in 1..Len(pipes) : TextReject(p)
    \/ \E p \in 1..Len(pipes) : TimerFires(p)
    \/ \E p \in 1..Len(pipes) : JsonResolve(p)
    \/ \E p \in 1..Len(pipes) : JsonReject(p)

SpecForm == Init /\ [][NextForm]_vars

(***************************************************************************)
(* SpecFormLive: SpecForm where every promise that is awaited settles:     *)
(* each fetch, each read of a body and each timer completes at some time.  *)
(***************************************************************************)
FetchSettles ==
    \E p \in 1..Len(pipes) : FetchOk(p) \/ FetchNotOk(p) \/ FetchReject(p)

TextSettles == \E p \in 1..Len(pipes) : TextResolve(p) \/ TextReject(p)

TimerSettles == \E p \in 1..Len(pipes) : TimerFires(p)

JsonSettles == \E p \in 1..Len(pipes) : JsonResolve(p) \/ JsonReject(p)

SpecFormLive ==
    /\ SpecForm
    /\ WF_vars(FetchSettles)
    /\ WF_vars(TextSettles)
    /\ WF_vars(TimerSettles)
    /\ WF_vars(JsonSettles)

(***************************************************************************)
(* SpecTwo: two instances of App mounted on one page, each with its form.  *)
(***************************************************************************)
\* the turn passes to the other instance
Switch ==
    /\ peer.id # 0
    /\ peer' = Mine
    /\ pipes' = peer.pipes
    /\ recipe' = peer.recipe
    /\ isLoading' = peer.isLoading
    /\ error' = peer.error
    /\ escaped' = peer.escaped
    /\ outcome' = peer.outcome
    /\ answers' = peer.answers
    /\ UNCHANGED variant

\* one of the radio inputs called diet is chosen
DietChange == \E value \in FieldValues["diet"] : Change("diet", value)

InitTwo ==
    /\ variant \in Variants
    /\ pipes = << >>
    /\ recipe = JNull
    /\ isLoading = FALSE
    /\ error = JNull
    /\ escaped = FALSE
    /\ outcome = NoOutcome
    /\ answers = InitialAnswers
    /\ peer = [id |-> 2, pipes |-> << >>, recipe |-> JNull,
               isLoading |-> FALSE, error |-> JNull, escaped |-> FALSE,
               outcome |-> NoOutcome, answers |-> InitialAnswers]

NextTwo ==
    \/ Switch
    \/ DietChange
    \/ FormSubmit
    \/ \E p \in 1..Len(pipes) : FetchOk(p)
    \/ \E p \in 1..Len(pipes) : FetchNotOk(p)
    \/ \E p \in 1..Len(pipes) : FetchReject(p)
    \/ \E p \in 1..Len(pipes) : TextResolve(p)
    \/ \E p \in 1..Len(pipes) : TextReject(p)
    \/ \E p \in 1..Len(pipes) : TimerFires(p)
    \/ \E p \in 1..Len(pipes) : JsonResolve(p)
    \/ \E p \in 1..Len(pipes) : JsonReject(p)

SpecTwo == InitTwo /\ [][NextTwo]_vars

(***************************************************************************)
(* SpecSend: one call of fetchWithRetry(url, options, maxRetries) on its   *)
(* own, for every maxRetries up to the bound.                              *)
(***************************************************************************)
InitSend ==
    /\ variant \in Variants
    /\ \E maxRetries \in 0..MaxRetriesBound :
          pipes = <<LoopHead(variant, NewCall("direct", maxRetries))>>
    /\ recipe = JNull
    /\ isLoading = FALSE
    /\ error = JNull
    /\ escaped = FALSE
    /\ outcome = NoOutcome
    /\ answers = InitialAnswers
    /\ peer = NoPeer

NextSend ==
    \/ \E p \in 1..Len(pipes) : FetchOk(p)
    \/ \E p \in 1..Len(pipes) : FetchNotOk(p)
    \/ \E p \in 1..Len(pipes) : FetchReject(p)
    \/ \E p \in 1..Len(pipes) : TextResolve(p)
    \/ \E p \in 1..Len(pipes) : TextReject(p)
    \/ \E p \in 1..Len(pipes) : TimerFires(p)

SpecSend == InitSend /\ [][NextSend]_vars

(***************************************************************************)
(* Properties.                                                             *)
(***************************************************************************)
Calls == {pipes[p] : p \in 1..Len(pipes)}

\* the invocation of fetchWithRetry is over
Over(c) == c.pc \in {"returned", "thrown"}

\* a retryable failure: a non-2xx status other than 400, or a network failure
Retryable(status) == status \notin {200, 400}

AllRetryable(c) == \A k \in 1..Len(c.log) : Retryable(c.log[k])

\* the request state the three state slots stand for
RequestState ==
    IF isLoading THEN "Loading"
    ELSE IF recipe = JNull /\ error = JNull THEN "Idle"
    ELSE IF recipe # JNull /\ error = JNull THEN "Success"
    ELSE IF recipe = JNull /\ error # JNull THEN "Failure"
    ELSE "RecipeAndError"

\* C1: at most one pipeline execution (and so at most one network call) of the
\* controller is in flight at any time, whatever the sequence of submit calls
\* and network completions.
C1_SingleFlight == Len(pipes) <= 1

\* C2: HTTP 400 is terminal: once an attempt of a send has returned status
\* 400, the send makes no further network call and starts no backoff wait.
C2_BadRequestIsTerminal ==
    \A c \in Calls : \A k \in 1..Len(c.log) :
        c.log[k] = 400 => (c.calls = k /\ c.waits < k)

\* C3: for every maxRetries >= 1, a send all of whose attempts ended in a
\* retryable failure has, once it is over, made exactly maxRetries network
\* calls and thrown the exhaustion error.
C3_RetryExhaustion ==
    \A c \in Calls :
        (c.caller = "direct" /\ c.maxRetries >= 1 /\ Over(c) /\ AllRetryable(c))
            => /\ c.calls = c.maxRetries
               /\ Len(c.log) = c.maxRetries
               /\ c.pc = "thrown"
               /\ c.result.t = "error"
               /\ variant = "chefApp" =>
                     c.result.message =
                        "API call failed after " \o ToString(c.maxRetries)
                            \o " attempts: " \o c.caught.message

C3_Witness ==
    \E c \in Calls :
        /\ c.maxRetries = 3 /\ c.pc = "thrown" /\ c.calls = 3
        /\ c.log = <<503, 0, 503>>

\* C4: whatever the attempts of a send end with (success, 400, another
\* non-2xx status, a network failure, a failure to read the error body), the
\* send never makes more than maxRetries network calls.
C4_RetryBudget == \A c \in Calls : c.calls <= c.maxRetries

C4_Witness ==
    \E c \in Calls :
        /\ c.maxRetries = 3 /\ c.calls = 3 /\ Over(c)
        /\ c.log = <<400, 0, 503>> /\ c.caught = BodyErr

\* C5: the wait started after the attempt with zero-based index i lasts at
\* least 2^i seconds and is longer than the wait before it, whatever the jitter.
C5_Backoff ==
    [][\A p \in 1..Len(pipes) :
          (Len(pipes') = Len(pipes) /\ pipes'[p].waits = pipes[p].waits + 1)
              => /\ pipes'[p].delay >= (2 ^ pipes[p].i) * 1000
                 /\ pipes'[p].delay > pipes[p].delay]_vars

C5_Witness ==
    \E c \in Calls :
        c.pc = "wait" /\ c.waits = 3 /\ c.i = 2 /\ c.delay = 4000

\* C6: within one send a backoff wait occurs only after a retryable failure
\* that is followed by another attempt, never after the last attempt or after
\* a success, so the number of waits is the number of network calls minus one.
C6_WaitOnlyBeforeRetry ==
    \A c \in Calls :
        /\ (c.caller = "direct" /\ c.pc = "wait")
              => /\ Retryable(c.log[Len(c.log)])
                 /\ c.calls < c.maxRetries
                 /\ c.waits = c.calls
        /\ (c.pc \in {"fetch", "text"} \/ (Over(c) /\ c.calls >= 1))
              => c.waits = c.calls - 1

\* C7: the error thrown after maxRetries retryable failures carries the error
\* of the last attempt, not that of an earlier one.
C7_CarriesLastError ==
    \A c \in Calls :
        (c.caller = "direct" /\ c.maxRetries >= 1 /\ c.pc = "thrown"
            /\ AllRetryable(c))
            => /\ c.caught.t = "error"
               /\ \/ c.result = c.caught
                  \/ /\ c.result.t = "error"
                     /\ c.result.message =
                           "API call failed after " \o ToString(c.maxRetries)
                               \o " attempts: " \o c.caught.message

C7_Witness ==
    \E c \in Calls :
        /\ c.pc = "thrown" /\ c.maxRetries = 2 /\ c.log = <<503, 0>>
        /\ c.caught = NetworkErr

\* C8: the request state starts as Idle and changes only from Idle, Success
\* or Failure to Loading and from Loading to Success or Failure.
C8_StateMachine ==
    /\ RequestState = "Idle"
    /\ [][\/ RequestState' = RequestState
          \/ RequestState \in {"Idle", "Success", "Failure"}
                /\ RequestState' = "Loading"
          \/ RequestState = "Loading"
                /\ RequestState' \in {"Success", "Failure"}]_vars

\* C9: the request state is a tagged variant: a recipe and an error are never
\* both present, and neither is present while loading.
C9_TaggedVariant ==
    /\ ~(recipe # JNull /\ error # JNull)
    /\ isLoading => (recipe = JNull /\ error = JNull)

\* C10: a pipeline that fails, at whatever stage, leaves the controller not
\* loading with a non-empty error message, and no exception escapes
\* generateRecipe.
C10_FailuresAreCaught ==
    /\ ~escaped
    /\ outcome.kind = "failure"
          => (~isLoading /\ error.t = "str" /\ Len(error.s) > 0)

C10_Witness ==
    /\ outcome.kind = "failure" /\ outcome.stage = "transport"
    /\ error.t = "str"
    /\ ~isLoading

(***************************************************************************)
(* Properties of the validation of the response.                           *)
(***************************************************************************)
NonEmptyStr(v) == v.t = "str" /\ v.s # ""

StrArray(v) == v.t = "arr" /\ \A k \in 1..Len(v.a) : v.a[k].t = "str"

\* all four required fields are there and valid
WellFormedRecipe(r) ==
    /\ NonEmptyStr(Get(r, "recipeName"))
    /\ StrArray(Get(r, "ingredients")) /\ Get(r, "ingredients").a # << >>
    /\ StrArray(Get(r, "instructions")) /\ Get(r, "instructions").a # << >>
    /\ Get(r, "prepTimeMinutes").t = "num" /\ Get(r, "prepTimeMinutes").n > 0

\* a pipeline has completed on the response body `input`
Completed(input) == outcome.kind # "none" /\ outcome.input = input

\* the response bodies in which a step of candidates[0].content.parts[0].text
\* is missing
PathMissing ==
    {EnvNoText, EnvEmptyParts, EnvNoParts, EnvNoContent, EnvNoCandidates,
     EnvError}

Contains(s, t) ==
    \E k \in 1..(Len(s) - Len(t) + 1) : SubSeq(s, k, k + Len(t) - 1) = t

\* C11: in every Success state the stored recipe has a non-empty recipeName,
\* non-empty ingredients and instructions sequences and prepTimeMinutes > 0.
C11_SuccessIsWellFormed ==
    RequestState = "Success" => WellFormedRecipe(recipe)

\* C12: a payload missing required fields fails at the schema check with an
\* error that names the first missing field in the order recipeName,
\* ingredients, instructions, prepTimeMinutes; for {"description":"x"} that is
\* recipeName.
C12_NamesFirstMissingField ==
    \A case \in {<<TxtDescOnly, "recipeName">>, <<TxtIngrString, "ingredients">>,
                 <<TxtNoSteps, "instructions">>} :
        Completed(EnvText(case[1]))
            => /\ outcome.kind = "failure" /\ outcome.stage = "schema"
               /\ error.t = "str" /\ Contains(error.s, case[2])

\* C13: a response body in which a step of the text path is missing makes the
\* pipeline fail before anything is parsed: the controller ends in Failure
\* and holds no recipe.
C13_MissingPathFails ==
    \A input \in PathMissing :
        Completed(input)
            => /\ outcome.kind = "failure" /\ outcome.stage = "path"
               /\ RequestState = "Failure"

C13_Witness == Completed(EnvNoParts) /\ RequestState = "Failure"

\* C14: a text that is not JSON makes the pipeline fail at JSON.parse: the
\* controller ends in Failure, never in Success.
C14_InvalidJsonFails ==
    Completed(EnvText(TxtNotJson))
        => /\ outcome.kind = "failure" /\ outcome.stage = "parse"
           /\ RequestState = "Failure"

C14_Witness == Completed(EnvText(TxtNotJson)) /\ RequestState = "Failure"

\* C15: whenever the validation of a response fails, at whatever step, no
\* recipe is stored, not even a partial one.
C15_AllOrNothing == outcome.kind = "failure" => recipe = JNull

C15_Witness ==
    /\ Completed(EnvText(TxtDescOnly))
    /\ outcome.kind = "failure" /\ outcome.stage = "schema"
    /\ recipe = JNull

\* C16: the recipe stored for a payload that passed validation has
\* ingredients and instructions as sequences of strings, those of the
\* payload in their order, and prepTimeMinutes as an integer; for the sample
\* payload ingredients = ["1 cup rice"] and prepTimeMinutes = 20.
C16_Normalized ==
    outcome.kind = "success"
        => /\ StrArray(Get(recipe, "ingredients"))
           /\ StrArray(Get(recipe, "instructions"))
           /\ Get(recipe, "prepTimeMinutes").t = "num"
           /\ \A text \in ResponseTexts :
                 outcome.input = EnvText(text)
                     => /\ Get(recipe, "ingredients")
                              = Get(ParseTable[text], "ingredients")
                        /\ Get(recipe, "instructions")
                              = Get(ParseTable[text], "instructions")
           /\ outcome.input = EnvText(TxtSample)
                 => /\ Get(recipe, "ingredients").a = <<JStr("1 cup rice")>>
                    /\ Get(recipe, "prepTimeMinutes").n = 20

\* C17: a pipeline whose response body holds a schema-conforming recipe takes
\* the controller from Loading to Success with that recipe, whose recipeName
\* is not empty.
C17_ValidEnvelopeSucceeds ==
    [][(outcome'.input = EnvText(TxtSample) /\ outcome' # outcome)
          => /\ RequestState = "Loading"
             /\ RequestState' = "Success"
             /\ outcome'.kind = "success"
             /\ NonEmptyStr(Get(recipe', "recipeName"))
             /\ Get(recipe', "recipeName").s = "Stir Fry"]_vars

C17_Witness ==
    /\ Completed(EnvText(TxtSample))
    /\ RequestState = "Success"
    /\ NonEmptyStr(Get(recipe, "recipeName"))

(***************************************************************************)
(* Properties of the diagnostic message of a response that is not ok.      *)
(***************************************************************************)
GenericMessage(status) == "HTTP error! status: " \o ToString(status)

ApiMessage(what, status) ==
    "API Error: " \o what \o " (" \o ToString(status) \o ")"

\* C18: the message of a non-2xx response is the message field of a JSON
\* error envelope if there is one, else the raw body text if it is not empty
\* (also when the body is JSON without error.message), else the generic
\* message with the HTTP status.
C18_MessagePriority ==
    \A c \in Calls :
        c.errorText.t = "str"
            => c.caught.message =
                  IF c.errorText.s = TxtQuota
                  THEN ApiMessage("quota exceeded", c.status)
                  ELSE IF c.errorText.s # ""
                  THEN ApiMessage(c.errorText.s, c.status)
                  ELSE GenericMessage(c.status)

\* C18 as amended: in part_000 the message is the message field of a JSON
\* error envelope if there is one, else the raw body text if it is not empty
\* and is not JSON or is the JSON null, else (an empty body, any other JSON
\* body) the generic message with the HTTP status; chefApp does not read the
\* body and gives the fixed Bad Request message for 400 and the generic
\* message for every other status.
C18_MessagePriorityAmended ==
    \A c \in Calls :
        /\ c.errorText.t = "str"
              => c.caught.message =
                    IF c.errorText.s = TxtQuota
                    THEN ApiMessage("quota exceeded", c.status)
                    ELSE IF c.errorText.s \in {TxtPlain, TxtNull}
                    THEN ApiMessage(c.errorText.s, c.status)
                    ELSE GenericMessage(c.status)
        /\ (variant = "chefApp" /\ c.status \notin {0, 200})
              => c.caught.message =
                    IF c.status = 400
                    THEN "Bad Request: Invalid input to the API."
                    ELSE GenericMessage(c.status)

C18_Witness ==
    \E c \in Calls :
        /\ c.errorText = JStr(TxtCode)
        /\ c.status = 503
        /\ c.caught.message = "HTTP error! status: 503"

(***************************************************************************)
(* Properties of the prompt.                                               *)
(***************************************************************************)
\* generateRecipe has just been called: its pipeline is the new last one
Submitted == Len(pipes') = Len(pipes) + 1

\* userQuery as it is in the request of invocation c
Prompt(c) ==
    IF c.body = Undefined THEN "" ELSE c.body.contents[1].parts[1].text

\* the prompt that the call put into its request
NewQuery == Prompt(pipes'[Len(pipes')])

\* the text inputs of the form
FreeText == {"ingredients", "allergies", "specialRequest"}

\* a whole line of the prompt
Line(label, value) == "\n" \o label \o value \o "\n"

OtherDietPhrase(diet) ==
    IF diet = "veg" THEN "Non-Vegetarian" ELSE "Strictly Vegetarian"

\* C19: when ingredients, allergies or specialRequest is empty at the call,
\* the prompt has that field's default phrase in its place, and no line of
\* the prompt ends right after its label.
C19_DefaultsFillEmptyFields ==
    [][Submitted =>
         /\ answers.ingredients = "" =>
              Contains(NewQuery, Line("- Main Ingredients: ", NoIngredients))
         /\ answers.allergies = "" =>
              Contains(NewQuery, Line("- Allergies to Avoid: ", NoAllergies))
         /\ answers.specialRequest = "" =>
              Contains(NewQuery,
                       Line("- Special Request/Style: ", NoSpecialRequest))
         /\ \A label \in {"- Main Ingredients: ", "- Allergies to Avoid: ",
                           "- Special Request/Style: "} :
              ~Contains(NewQuery, Line(label, ""))]_vars

C19_Witness ==
    \E p \in 1..Len(pipes) :
        /\ Contains(Prompt(pipes[p]), Line("- Main Ingredients: ", "chicken, rice"))
        /\ Contains(Prompt(pipes[p]), Line("- Allergies to Avoid: ", NoAllergies))
        /\ Contains(Prompt(pipes[p]),
                    Line("- Special Request/Style: ", NoSpecialRequest))

\* C20: the prompt contains "Strictly Vegetarian" when the diet is veg and
\* "Non-Vegetarian" when it is non-veg, never the phrase of the other diet,
\* and the chosen fat is in the cooking-fat line.
C20_DietAndFat ==
    [][Submitted =>
         /\ Contains(NewQuery, DietPhrase(answers.diet))
         /\ ~Contains(NewQuery, OtherDietPhrase(answers.diet))
         /\ Contains(NewQuery,
                     Line("- Cooking Fat: Use ",
                          answers.fatType \o " exclusively."))]_vars

\* C20 amended: the Dietary Type line of the prompt carries the phrase of the
\* chosen diet and no line carries the other phrase as the dietary type; the
\* other phrase is in the prompt only where a text input of the form has
\* it; the chosen fat is in the cooking-fat line.
C20_DietAndFatAmended ==
    [][Submitted =>
         /\ Contains(NewQuery,
                     Line("- Dietary Type: ", DietPhrase(answers.diet)))
         /\ ~Contains(NewQuery,
                      Line("- Dietary Type: ", OtherDietPhrase(answers.diet)))
         /\ Contains(NewQuery, OtherDietPhrase(answers.diet)) =>
              \E name \in FreeText :
                  Contains(answers[name], OtherDietPhrase(answers.diet))
         /\ Contains(NewQuery,
                     Line("- Cooking Fat: Use ",
                          answers.fatType \o " exclusively."))]_vars

C20_Witness ==
    \E p \in 1..Len(pipes) :
        /\ Contains(Prompt(pipes[p]), Line("- Dietary Type: ", "Non-Vegetarian"))
        /\ Contains(Prompt(pipes[p]), "Strictly Vegetarian sides")
        /\ Contains(Prompt(pipes[p]), Line("- Cooking Fat: Use ", "butter exclusively."))

(***************************************************************************)
(* Properties of the request and of the form.                              *)
(***************************************************************************)
\* invocation c carries a request built by generateRecipe
HasRequest(c) == c.constraints # Undefined /\ c.body # Undefined

\* C21: two requests built from equal answers are identical: same prompt
\* text, same schema, same generation config, same system instruction,
\* whatever the request state was at either call and whatever was submitted
\* before.
C21_BuildIsDeterministic ==
    \A c \in Calls : \A d \in Calls :
        (HasRequest(c) /\ HasRequest(d) /\ c.constraints = d.constraints)
            => /\ Prompt(c) = Prompt(d)
               /\ c.body.generationConfig.responseSchema
                     = d.body.generationConfig.responseSchema
               /\ c.body.generationConfig = d.body.generationConfig
               /\ c.body.systemInstruction = d.body.systemInstruction
               /\ c.body = d.body

C21_Witness ==
    /\ Len(pipes) = 2
    /\ HasRequest(pipes[1]) /\ HasRequest(pipes[2])
    /\ pipes[1].constraints = pipes[2].constraints
    /\ pipes[1].pc = "wait" /\ pipes[1].i = 1
    /\ pipes[2].pc = "fetch" /\ pipes[2].i = 0

\* C22: in every state, Loading included, every edit of an answer is
\* possible, and a step that changes the answers changes nothing else: the
\* recipe, the loading flag, the error and the pipelines in flight stay as
\* they are.
C22_EditChangesOnlyAnswers ==
    /\ [](\A name \in DOMAIN FieldValues : \A value \in FieldValues[name] :
            ENABLED (/\ handleChange
                     /\ answers' = [answers EXCEPT ![name] = value]))
    /\ [][answers' # answers =>
             /\ recipe' = recipe
             /\ isLoading' = isLoading
             /\ error' = error
             /\ pipes' = pipes
             /\ \E name \in DOMAIN FieldValues :
                   answers' = [answers EXCEPT ![name] = answers'[name]]]_vars

C22_Witness ==
    /\ isLoading
    /\ \E c \in Calls : HasRequest(c) /\ c.constraints # answers
    /\ answers.diet = "non-veg"

\* C23: every attempt of a pipeline is given the same request, the one built
\* from the answers as they were when generateRecipe was called: edits made
\* while the pipeline is in flight change nothing of what a later attempt
\* sends.
C23_RequestIsImmutable ==
    /\ [](\A c \in Calls :
            HasRequest(c) => c.body = Payload(UserQuery(c.constraints)))
    /\ [][\A p \in 1..Len(pipes) :
             (Len(pipes') = Len(pipes) /\ HasRequest(pipes[p])
                 /\ HasRequest(pipes'[p]))
                 => /\ pipes'[p].body = pipes[p].body
                    /\ pipes'[p].constraints = pipes[p].constraints]_vars

C23_Witness ==
    \E c \in Calls :
        /\ HasRequest(c) /\ c.pc = "fetch" /\ c.calls = 3
        /\ c.constraints = InitialAnswers
        /\ answers.ingredients = "chicken, rice" /\ answers.diet = "non-veg"
        /\ Contains(Prompt(c), Line("- Dietary Type: ", "Strictly Vegetarian"))

\* C24: with two instances mounted, a step of one instance (a submit, the
\* completion of a fetch, of a body read or of a timer, an edit of an answer)
\* leaves the other instance as it is: its recipe, loading flag and error,
\* its answers and the progress of its pipeline.
C24_InstancesShareNothing ==
    [][(peer.id # 0 /\ peer'.id = peer.id)
          => /\ peer'.recipe = peer.recipe
             /\ peer'.isLoading = peer.isLoading
             /\ peer'.error = peer.error
             /\ peer'.answers = peer.answers
             /\ peer'.pipes = peer.pipes
             /\ peer' = peer]_vars

C24_Witness ==
    /\ peer.id = 1
    /\ peer.isLoading /\ Len(peer.pipes) = 1 /\ peer.pipes[1].pc = "wait"
    /\ peer.answers.diet = "non-veg"
    /\ ~isLoading /\ error # JNull /\ answers.diet = "veg"

(***************************************************************************)
(* Properties of the pipeline as a whole.                                  *)
(***************************************************************************)
\* C25: when every fetch, body read and timer completes, a controller that
\* is Loading gets to Success or Failure, and every step that ends a
\* pipeline clears the loading flag.
C25_SubmitTerminates ==
    /\ (RequestState = "Loading") ~> (RequestState \in {"Success", "Failure"})
    /\ [][Len(pipes') < Len(pipes) => ~isLoading']_vars

C25_Witness ==
    /\ outcome.kind = "failure" /\ outcome.stage = "body"
    /\ Len(pipes) = 0
    /\ RequestState = "Failure"

\* C26: the controller is loading exactly when one of its pipelines is in
\* flight: no fetch, body read or backoff wait is pending while it is Idle,
\* Success or Failure.
C26_LoadingMatchesPipeline == isLoading <=> Len(pipes) >= 1

\* C27: what a Success or Failure state shows is the outcome of the latest
\* call of generateRecipe: a pipeline of an earlier call, when it ends,
\* changes neither the recipe nor the error nor the loading flag.
C27_LatestSubmitWins ==
    [][\A p \in 1..Len(pipes) :
          (pipes' = RemoveAt(pipes, p) /\ ~pipes[p].latest)
              => /\ recipe' = recipe
                 /\ error' = error
                 /\ isLoading' = isLoading]_vars

(***************************************************************************)
(* Properties of the retry policy.                                         *)
(***************************************************************************)
\* C28: when attempts 1..k-1 of a send ended in retryable failures and
\* attempt k got a 2xx response, the send has made exactly k fetch calls, k
\* being at most maxRetries, and has returned that response; a 2xx response
\* is never followed by another fetch call.
C28_SuccessAfterRetries ==
    \A c \in Calls :
        /\ \A k \in 1..Len(c.log) :
              c.log[k] = 200 => (k = Len(c.log) /\ c.calls = k)
        /\ (/\ Len(c.log) >= 1
            /\ c.log[Len(c.log)] = 200
            /\ \A k \in 1..(Len(c.log) - 1) : Retryable(c.log[k]))
              => /\ c.pc = "returned"
                 /\ c.result = Response(200)
                 /\ c.calls = Len(c.log)
                 /\ c.calls <= c.maxRetries
                 /\ c.waits = c.calls - 1

C28_Witness ==
    \E c \in Calls :
        /\ c.pc = "returned" /\ c.maxRetries = 4
        /\ c.log = <<503, 0, 200>> /\ c.calls = 3

\* the copy of the source that is not the one in use
OtherVariant == CHOOSE v \in Variants : v # variant

\* Run(v, c, outcomes): invocation c of copy v after its next attempts have
\* ended as outcomes says (a status, 0 for a rejected fetch), an error body
\* being empty and the jitter 0, each wait having passed
RECURSIVE Run(_, _, _)
Run(v, c, outcomes) ==
    IF c.pc # "fetch" \/ outcomes = << >>
    THEN c
    ELSE LET status == Head(outcomes)
             a == Attempted(c, status)
             n == IF status = 200
                  THEN [a EXCEPT !.pc = "returned", !.result = Response(200)]
                  ELSE IF status = 0
                  THEN Catch(v, a, NetworkErr, 0)
                  ELSE IF v = "chefApp"
                  THEN Catch(v, a, StatusError(status), 0)
                  ELSE Catch(v, BodyRead(a, ""),
                             Err(ErrorMessage(status, "")), 0)
             m == IF n.pc = "wait"
                  THEN LoopHead(v, [n EXCEPT !.i = @ + 1])
                  ELSE n
         IN Run(v, m, Tail(outcomes))

\* the call of the other copy with the arguments and the attempt outcomes
\* of invocation c
Twin(c) ==
    Run(OtherVariant, LoopHead(OtherVariant, NewCall("direct", c.maxRetries)),
        c.log)

\* Run agrees with the steps: replayed on the copy in use, the outcomes of a
\* call give the number of fetch calls the call has made
RunAgreesWithSteps ==
    \A c \in Calls :
        (c.caller = "direct" /\ c.pc \in {"fetch", "returned", "thrown"})
            => LET r == Run(variant,
                            LoopHead(variant, NewCall("direct", c.maxRetries)),
                            c.log)
               IN r.calls = c.calls /\ r.pc = c.pc /\ r.waits = c.waits

\* C29: the two copies differ in their retry policy: given the same
\* maxRetries and the same attempt outcomes, among them a 400 with attempts
\* remaining, one of them makes another fetch call and the other does not.
C29_VariantsDifferOn400 ==
    \A c \in Calls :
        (/\ c.caller = "direct"
         /\ c.pc \in {"fetch", "returned", "thrown"}
         /\ \E k \in 1..Len(c.log) : c.log[k] = 400 /\ k < c.maxRetries)
            => Twin(c).calls # c.calls

\* C30: a call of generateRecipe made in Success or Failure takes the recipe
\* and the error away and sets the loading flag in the step that issues the
\* first fetch of the new pipeline, so that while that pipeline is in flight,
\* until a pipeline ends, neither a recipe nor an error is on display.
C30_SubmitClearsStale ==
    /\ [][(Submitted /\ RequestState \in {"Success", "Failure"})
             => /\ recipe' = JNull
                /\ error' = JNull
                /\ isLoading'
                /\ outcome' = NoOutcome
                /\ pipes'[Len(pipes')].pc = "fetch"
                /\ pipes'[Len(pipes')].calls = 1]_vars
    /\ []((Len(pipes) >= 1 /\ outcome = NoOutcome)
             => (recipe = JNull /\ error = JNull /\ isLoading))

C30_Witness ==
    /\ RequestState = "Success"
    /\ Len(pipes) = 0
    /\ ENABLED (/\ generateRecipe
                /\ Submitted
                /\ recipe' = JNull /\ error' = JNull /\ isLoading')

(***************************************************************************)
(* Properties of the failures.                                             *)
(***************************************************************************)
\* the stages of generateRecipe that come after fetchWithRetry has returned
AfterTransport == {"body", "path", "parse", "schema"}

\* C31: once fetchWithRetry has returned a response, whatever then fails (the
\* read of the body, the text path, JSON.parse, the check of the fields) ends
\* the pipeline: no further fetch call is made and no wait is started for
\* that submit.
C31_NoRetryAfterTransport ==
    /\ [][(Len(pipes) = 1 /\ pipes[1].pc = "json" /\ pipes' # pipes)
             => (pipes' = << >> /\ ~isLoading' /\ outcome'.kind # "none")]_vars
    /\ []((outcome.kind = "failure" /\ outcome.stage \in AfterTransport)
             => (Len(pipes) = 0 /\ ~isLoading /\ recipe = JNull))

C31_Witness ==
    /\ outcome.kind = "failure" /\ outcome.stage = "schema"
    /\ Len(pipes) = 0
    /\ error = JStr(FailureMessage(Err(MissingFieldsMessage)))

\* (2^(maxRetries - 1) - 1) + (maxRetries - 1) seconds, in milliseconds; for
\* maxRetries = 0 that is 1/2 - 1 - 1 seconds
WaitBound(maxRetries) ==
    IF maxRetries >= 1
    THEN ((2 ^ (maxRetries - 1) - 1) + (maxRetries - 1)) * 1000
    ELSE 0 - 1500

\* the wait after the attempt with index i is at least 2^i seconds and less
\* than 2^i seconds plus one second
WaitInRange(c) ==
    c.pc = "wait"
        => (c.delay >= (2 ^ c.i) * 1000 /\ c.delay < (2 ^ c.i) * 1000 + 1000)

\* C32: every wait is shorter than 2^i seconds plus one second, and the time
\* a send spends waiting is less than (2^(maxRetries-1) - 1) + (maxRetries -
\* 1) seconds.
C32_JitterBounded ==
    \A c \in Calls :
        c.caller = "direct"
            => (WaitInRange(c) /\ c.waited < WaitBound(c.maxRetries))

\* C32 amended: every wait is shorter than 2^i seconds plus one second; for
\* maxRetries >= 2 the time a send spends waiting is less than
\* (2^(maxRetries-1) - 1) + (maxRetries - 1) seconds, and for maxRetries <= 1
\* the send never waits, which the bound, then 0 or less, does not allow for.
C32_JitterBoundedAmended ==
    \A c \in Calls :
        c.caller = "direct"
            => /\ WaitInRange(c)
               /\ c.maxRetries >= 2 => c.waited < WaitBound(c.maxRetries)
               /\ c.maxRetries <= 1 =>
                     (c.waited = 0 /\ c.waits = 0
                      /\ c.waited >= WaitBound(c.maxRetries))

C32_Witness ==
    \E c \in Calls :
        /\ variant = "chefApp" /\ c.maxRetries = 4 /\ c.pc = "thrown"
        /\ c.waits = 3 /\ c.waited = 9997

\* C33: a response body whose text is the empty string is treated as one
\* without the text: the pipeline fails with the malformed-response message,
\* the same as for a missing text, not at JSON.parse, which is not reached.
C33_EmptyTextIsMalformed ==
    /\ Validate(EnvText("")) = Validate(EnvNoText)
    /\ Completed(EnvText(""))
          => /\ outcome.kind = "failure" /\ outcome.stage = "path"
             /\ error = JStr(FailureMessage(Err(MalformedMessage)))
             /\ recipe = JNull
             /\ RequestState = "Failure"

C33_Witness ==
    /\ Completed(EnvText(""))
    /\ error = JStr(FailureMessage(Err(MalformedMessage)))
    /\ Len(pipes) = 0

\* C34: a call of fetchWithRetry with maxRetries = 0 makes no fetch and no
\* wait and throws an error that has a message, one the catch block of
\* generateRecipe can turn into the failure text.
C34_ZeroAttemptsFails ==
    \A c \in Calls :
        (c.caller = "direct" /\ c.maxRetries = 0)
            => /\ c.pc = "thrown" /\ c.calls = 0 /\ c.waits = 0
               /\ c.result.t = "error"
               /\ Len(c.result.message) > 0
               /\ CatchHandles(c.result)

====
